---- MODULE Spec2Model ----
(***************************************************************************)
(* Model of the Solana Twitter Tracker: extractor.py (CLI) and             *)
(* streamlit_app.py (dashboard).                                           *)
(*                                                                         *)
(* Representation of values                                                *)
(*   text / address     sequence of one-character strings                  *)
(*   None               <<>> ; a present value v is <<v>>                  *)
(*   datetime           record year, month, day, hour, minute, second,     *)
(*                      microsecond (naive, as datetime.datetime)          *)
(*   timedelta          record days, seconds, microseconds                 *)
(*   '%Y-%m-%d %H:%M:%S UTC' string   <<Y, m, d, H, M, S, "UTC">>          *)
(*   '%Y-%m-%d %H:%M:%S' string       <<Y, m, d, H, M, S>>                 *)
(*   the string "Unknown"             <<"Unknown">>                        *)
(*   float result of a division       record kind ("finite", "inf",        *)
(*                      "-inf", "nan"), num, den (the exact quotient)      *)
(***************************************************************************)
EXTENDS Integers, Sequences, FiniteSets, TLC

\* ------------------------------------------------------------------------
\* Bounds of the model
\* ------------------------------------------------------------------------
MaxTweets == 3

MaxRunTweets == 2

MaxRuns == 3

MaxAddresses == 2

MaxRows == 4
\* Tweets per page of a timeline fetched on its own.
MaxPageLen == 2

\* ------------------------------------------------------------------------
\* Program constants
\* ------------------------------------------------------------------------
MinAddressLen == 32

MaxAddressLen == 44

max_requests == 10

HoursBefore == 2

HoursAfter == 24

\* ------------------------------------------------------------------------
\* General helpers
\* ------------------------------------------------------------------------
None == <<>>

Some(v) == <<v>>

Rep(c, n) == [i \in 1..n |-> c]

SetMax(S) == CHOOSE m \in S : \A k \in S : k <= m

\* ------------------------------------------------------------------------
\* extract_solana_addresses: re.findall(r'\b[1-9A-HJ-NP-Za-km-z]{32,44}\b')
\* ------------------------------------------------------------------------
Base58 ==
    {"1", "2", "3", "4", "5", "6", "7", "8", "9",
     "A", "B", "C", "D", "E", "F", "G", "H", "J", "K", "L", "M", "N",
     "P", "Q", "R", "S", "T", "U", "V", "W", "X", "Y", "Z",
     "a", "b", "c", "d", "e", "f", "g", "h", "i", "j", "k",
     "m", "n", "o", "p", "q", "r", "s", "t", "u", "v", "w", "x", "y", "z"}

\* The word characters of U+0080..U+00FF: the letters, and the characters
\* with a numeric value (superscripts and fractions). A text of the model is
\* a sequence of characters up to U+00FF.
UnicodeWord ==
    {"ª", "²", "³", "µ", "¹", "º", "¼", "½", "¾", "À", "Á", "Â",
     "Ã", "Ä", "Å", "Æ", "Ç", "È", "É", "Ê", "Ë", "Ì", "Í", "Î",
     "Ï", "Ð", "Ñ", "Ò", "Ó", "Ô", "Õ", "Ö", "Ø", "Ù", "Ú", "Û",
     "Ü", "Ý", "Þ", "ß", "à", "á", "â", "ã", "ä", "å", "æ", "ç",
     "è", "é", "ê", "ë", "ì", "í", "î", "ï", "ð", "ñ", "ò", "ó",
     "ô", "õ", "ö", "ø", "ù", "ú", "û", "ü", "ý", "þ", "ÿ"}

\* \w of a str pattern without re.ASCII: every Unicode letter and digit, and
\* the underscore.
WordChars == Base58 \cup {"0", "O", "I", "l", "_"} \cup UnicodeWord

IsWordAt(text, k) == k >= 1 /\ k <= Len(text) /\ text[k] \in WordChars

\* WordBoundary taken over the Base58 alphabet instead of \w.
WordBoundaryOfAlphabet(text, i) ==
    (i - 1 >= 1 /\ i - 1 <= Len(text) /\ text[i - 1] \in Base58)
        # (i >= 1 /\ i <= Len(text) /\ text[i] \in Base58)

\* \b before position i (1-based): exactly one side is a word character.
WordBoundary(text, i) == IsWordAt(text, i - 1) # IsWordAt(text, i)

\* MatchLengths with the lower bound of {32,44} lost.
MatchLengthsNoMinimum(text, i) ==
    IF ~WordBoundary(text, i) THEN {}
    ELSE {n \in 1..MaxAddressLen :
            /\ i + n - 1 <= Len(text)
            /\ \A k \in i..(i + n - 1) : text[k] \in Base58
            /\ WordBoundary(text, i + n)}

\* The lengths n for which the pattern matches at position i; the greedy
\* quantifier takes the largest.
MatchLengths(text, i) ==
    IF ~WordBoundary(text, i) THEN {}
    ELSE {n \in MinAddressLen..MaxAddressLen :
            /\ i + n - 1 <= Len(text)
            /\ \A k \in i..(i + n - 1) : text[k] \in Base58
            /\ WordBoundary(text, i + n)}

\* The first position from i on where a match can begin, a Base58 character
\* with \b before it; Len(text) + 1 if there is none. The scan moves on by
\* one character wherever the pattern does not match.
NextCandidate(text, i) ==
    LET starts == {j \in i..Len(text) : WordBoundary(text, j) /\ text[j] \in Base58}
    IN  IF starts = {} THEN Len(text) + 1
        ELSE CHOOSE j \in starts : \A k \in starts : j <= k

RECURSIVE FindAll(_, _)
\* re.findall: leftmost non-overlapping matches, scanning from position i.
FindAll(text, i) ==
    LET j == NextCandidate(text, i)
    IN  IF j > Len(text) THEN <<>>
        ELSE LET ns == MatchLengths(text, j)
             IN  IF ns = {} THEN FindAll(text, j + 1)
                 ELSE LET n == SetMax(ns)
                      IN  <<SubSeq(text, j, j + n - 1)>> \o FindAll(text, j + n)

\* text is None (<<>> as Some/None) or a string; `if not text: return []`.
extract_solana_addresses(text) ==
    IF text = <<>> THEN <<>> ELSE FindAll(text, 1)

\* ------------------------------------------------------------------------
\* datetime: the calendar arithmetic behind strptime, strftime, timedelta
\* ------------------------------------------------------------------------
\* A naive datetime (tzinfo None).
DateTime(y, mo, d, h, mi, s, us) ==
    [year |-> y, month |-> mo, day |-> d, hour |-> h, minute |-> mi,
     second |-> s, microsecond |-> us, tzinfo |-> None]

\* The same fields as a timezone-aware datetime in UTC, as the social API
\* client parses created_at.
utc_aware(dt) == [dt EXCEPT !.tzinfo = Some("UTC")]

\* datetime.datetime.max
datetime_max == DateTime(9999, 12, 31, 23, 59, 59, 999999)

is_leap(y) == y % 4 = 0 /\ (y % 100 # 0 \/ y % 400 = 0)

days_in_month(y, mo) ==
    IF mo = 2 THEN (IF is_leap(y) THEN 29 ELSE 28)
    ELSE IF mo \in {4, 6, 9, 11} THEN 30 ELSE 31

days_before_year(y) ==
    (y - 1) * 365 + ((y - 1) \div 4) - ((y - 1) \div 100) + ((y - 1) \div 400)

RECURSIVE days_before_month(_, _)
days_before_month(y, mo) ==
    IF mo = 1 THEN 0
    ELSE days_before_month(y, mo - 1) + days_in_month(y, mo - 1)

\* date.toordinal(): 0001-01-01 is day 1.
ymd2ord(y, mo, d) == days_before_year(y) + days_before_month(y, mo) + d

\* date.fromordinal(): the 400/100/4/1-year cycle decomposition.
ord2ymd(ordinal) ==
    LET n0   == ordinal - 1
        n400 == n0 \div 146097
        r400 == n0 % 146097
        n100 == r400 \div 36524
        r100 == r400 % 36524
        n4   == r100 \div 1461
        r4   == r100 % 1461
        n1   == r4 \div 365
        n    == r4 % 365
        y    == n400 * 400 + 1 + n100 * 100 + n4 * 4 + n1
    IN  IF n1 = 4 \/ n100 = 4 THEN <<y - 1, 12, 31>>
        ELSE LET mo == CHOOSE m \in 1..12 :
                         /\ days_before_month(y, m) <= n
                         /\ n < days_before_month(y, m) + days_in_month(y, m)
             IN  <<y, mo, n - days_before_month(y, mo) + 1>>

\* date(1970, 1, 1).toordinal()
EpochOrdinal == 719163

\* The instant of a naive UTC datetime in seconds since the Unix epoch, the
\* time line pandas Timestamps are compared on.
UnixSeconds(dt) ==
    (ymd2ord(dt.year, dt.month, dt.day) - EpochOrdinal) * 86400
        + dt.hour * 3600 + dt.minute * 60 + dt.second

\* timedelta(hours=h), normalised to days and seconds (0 <= seconds < 86400).
timedelta_hours(h) ==
    [days |-> (h * 3600) \div 86400, seconds |-> (h * 3600) % 86400,
     microseconds |-> 0]

\* -timedelta: the fields negated and renormalised into 0 <= seconds < 86400
\* and 0 <= microseconds < 1000000, borrowing from the field above.
timedelta_neg(td) ==
    LET us   == (1000000 - td.microseconds) % 1000000
        secs == td.seconds + (IF td.microseconds = 0 THEN 0 ELSE 1)
    IN  [days |-> IF secs = 0 THEN 0 - td.days ELSE 0 - td.days - 1,
         seconds |-> (86400 - secs) % 86400,
         microseconds |-> us]

\* datetime.__add__: the sum is renormalised and turned back into a date;
\* None where the date leaves 0001-01-01..9999-12-31 and Python raises
\* OverflowError.
datetime_add(dt, td) ==
    LET us   == dt.microsecond + td.microseconds
        secs == dt.hour * 3600 + dt.minute * 60 + dt.second + td.seconds
                    + (us \div 1000000)
        days == ymd2ord(dt.year, dt.month, dt.day) + td.days + (secs \div 86400)
        sod  == secs % 86400
        ymd  == ord2ymd(days)
    IN  IF days < 1 \/ days > ymd2ord(9999, 12, 31) THEN None
        ELSE Some([DateTime(ymd[1], ymd[2], ymd[3], sod \div 3600,
                            (sod % 3600) \div 60, sod % 60, us % 1000000)
                      EXCEPT !.tzinfo = dt.tzinfo])

datetime_sub(dt, td) == datetime_add(dt, timedelta_neg(td))

\* Comparing an offset-naive with an offset-aware datetime raises TypeError.
compare_raises(a, b) == (a.tzinfo = None) # (b.tzinfo = None)

\* Tuple comparison of datetime.__lt__, for two naive datetimes or two aware
\* ones in UTC.
datetime_lt(a, b) ==
    LET fa == <<a.year, a.month, a.day, a.hour, a.minute, a.second, a.microsecond>>
        fb == <<b.year, b.month, b.day, b.hour, b.minute, b.second, b.microsecond>>
    IN  \E k \in 1..7 : fa[k] < fb[k] /\ \A j \in 1..(k - 1) : fa[j] = fb[j]

\* dt.strftime('%Y-%m-%d %H:%M:%S UTC'): the microseconds are dropped.
strftime_utc(dt) ==
    <<dt.year, dt.month, dt.day, dt.hour, dt.minute, dt.second, "UTC">>

\* dt.strftime('%Y-%m-%d %H:%M:%S')
strftime_sql(dt) ==
    <<dt.year, dt.month, dt.day, dt.hour, dt.minute, dt.second>>

\* Whether the six leading fields name a real date and time of day.
ValidFields(s) ==
    /\ s[1] \in 1..9999 /\ s[2] \in 1..12
    /\ s[3] \in 1..days_in_month(s[1], s[2])
    /\ s[4] \in 0..23 /\ s[5] \in 0..59 /\ s[6] \in 0..59

\* datetime.strptime(s, '%Y-%m-%d %H:%M:%S UTC'): Some(datetime), or None
\* where strptime raises ValueError. %Y takes four digits, and strftime
\* writes a year below 1000 with fewer.
strptime_utc(s) ==
    IF Len(s) = 7 /\ s[7] = "UTC" /\ ValidFields(s) /\ s[1] >= 1000
    THEN Some(DateTime(s[1], s[2], s[3], s[4], s[5], s[6], 0))
    ELSE None

\* tweet_time.replace(' UTC', '')
replace_utc(s) == IF Len(s) = 7 /\ s[7] = "UTC" THEN SubSeq(s, 1, 6) ELSE s

\* pd.to_datetime(s) of a 'Y-m-d H:M:S' string, as seconds on the time line;
\* None where pandas raises.
to_datetime(s) ==
    IF Len(s) = 6 /\ ValidFields(s)
    THEN Some(UnixSeconds(DateTime(s[1], s[2], s[3], s[4], s[5], s[6], 0)))
    ELSE None

\* ------------------------------------------------------------------------
\* Earliest-mention fold (main, and the dashboard's Analyze Tweets handler)
\* ------------------------------------------------------------------------
\* hasattr(tweet, 'created_at'): created_at is <<>> when the attribute is
\* missing and <<datetime>> when it is there.
has_created_at(tweet) == tweet.created_at # <<>>

\* key=lambda x: x.created_at if hasattr(x, 'created_at') else datetime.max
SortKey(tweet) ==
    IF has_created_at(tweet) THEN tweet.created_at[1] ELSE datetime_max

RECURSIVE InsertByKey(_, _)
\* x goes before the first element whose key is greater than its own, so
\* equal keys keep their input order (sorted() is stable).
InsertByKey(sortedSeq, x) ==
    IF sortedSeq = <<>> THEN <<x>>
    ELSE IF datetime_lt(SortKey(x), SortKey(Head(sortedSeq)))
         THEN <<x>> \o sortedSeq
         ELSE <<Head(sortedSeq)>> \o InsertByKey(Tail(sortedSeq), x)

RECURSIVE SortedPrefix(_, _)
SortedPrefix(seq, n) ==
    IF n = 0 THEN <<>> ELSE InsertByKey(SortedPrefix(seq, n - 1), seq[n])

\* Whether sorted() raises: it has to compare the keys of two tweets of which
\* one is aware and the other naive (datetime.max, the key of a tweet
\* without created_at, is naive).
SortRaises(seq) ==
    \E j, k \in 1..Len(seq) : compare_raises(SortKey(seq[j]), SortKey(seq[k]))

\* sorted(tweets, key=...): Some(list), or None where it raises TypeError.
SortTweets(seq) ==
    IF SortRaises(seq) THEN None ELSE Some(SortedPrefix(seq, Len(seq)))

\* address_dict is the sequence of its entries in insertion order.
DictIndex(dict, address) ==
    IF \E k \in 1..Len(dict) : dict[k].address = address
    THEN CHOOSE k \in 1..Len(dict) : dict[k].address = address
    ELSE 0

\* Whether the comparison of line 305 raises TypeError: the address is
\* recorded with a datetime of the other kind (after sorted() has passed,
\* the keys of all tweets are of one kind).
StoreTestRaises(dict, address, tweet_datetime) ==
    /\ DictIndex(dict, address) # 0
    /\ compare_raises(tweet_datetime, dict[DictIndex(dict, address)].datetime)

\* ShouldStore with the comparison turned round: a newer tweet replaces.
ShouldStoreNewer(dict, address, tweet_datetime) ==
    \/ DictIndex(dict, address) = 0
    \/ datetime_lt(dict[DictIndex(dict, address)].datetime, tweet_datetime)

\* ShouldStore with <= for <: a tweet of the recorded time replaces too.
ShouldStoreNotLater(dict, address, tweet_datetime) ==
    \/ DictIndex(dict, address) = 0
    \/ ~datetime_lt(dict[DictIndex(dict, address)].datetime, tweet_datetime)

\* The test of line 305: a new address, or an older tweet than the recorded one.
ShouldStore(dict, address, tweet_datetime) ==
    \/ DictIndex(dict, address) = 0
    \/ datetime_lt(tweet_datetime, dict[DictIndex(dict, address)].datetime)

\* The body of `for address in addresses` for one address of one tweet.
FoldAddressInto(dict, tweet, address) ==
    LET timestamp == IF has_created_at(tweet)
                     THEN strftime_utc(tweet.created_at[1])
                     ELSE <<"Unknown">>
        tweet_datetime == SortKey(tweet)
        entry == [address |-> address, timestamp |-> timestamp,
                  datetime |-> tweet_datetime, tweet_text |-> tweet.text]
        k == DictIndex(dict, address)
    IN  IF ShouldStore(dict, address, tweet_datetime)
        THEN IF k = 0 THEN Append(dict, entry)
             ELSE [dict EXCEPT ![k] = entry]
        ELSE dict

\* ResultsOf listing the entries last-inserted first.
ResultsOfReversed(dict) ==
    [k \in 1..Len(dict) |->
        <<dict[Len(dict) + 1 - k].address, dict[Len(dict) + 1 - k].timestamp,
          dict[Len(dict) + 1 - k].tweet_text>>]

\* results = [(addr, data['timestamp'], data['tweet_text']) for ...]
ResultsOf(dict) ==
    [k \in 1..Len(dict) |->
        <<dict[k].address, dict[k].timestamp, dict[k].tweet_text>>]

\* ------------------------------------------------------------------------
\* query_flipside_data: the window of one address
\* ------------------------------------------------------------------------
\* WindowStart with the sign of the offset wrong.
WindowStartAfter(tweet_time) == datetime_add(tweet_time, timedelta_hours(HoursBefore))

\* start_time = tweet_time - timedelta(hours=2)
WindowStart(tweet_time) == datetime_sub(tweet_time, timedelta_hours(HoursBefore))

\* end_time = tweet_time + timedelta(hours=24)
WindowEnd(tweet_time) == datetime_add(tweet_time, timedelta_hours(HoursAfter))

\* The query text, reduced to what varies: the address in the IN lists and
\* the two bounds of `block_timestamp BETWEEN '...' AND '...'`.
BuildSql(address, tweet_time) ==
    [address |-> address,
     between_from |-> strftime_sql(WindowStart(tweet_time)[1]),
     between_to |-> strftime_sql(WindowEnd(tweet_time)[1])]

\* What lines 161-165, which no try block covers, raise for a timestamp:
\* ValueError from strptime, OverflowError from the window arithmetic, or
\* None.
LoopHeadError(timestamp) ==
    IF strptime_utc(timestamp) = None THEN Some("ValueError")
    ELSE IF \/ WindowStart(strptime_utc(timestamp)[1]) = None
            \/ WindowEnd(strptime_utc(timestamp)[1]) = None
         THEN Some("OverflowError")
         ELSE None

\* The columns the print loop of lines 245-254 reads from each record.
PrintedColumns == {"hour", "token_symbol", "avg_token_price_usd", "swap_count"}

\* Whether the print loop raises: KeyError on a record that lacks a column,
\* TypeError of the format `:<14.6f` on a price that is None. It runs inside
\* the try block, after the result was stored.
PrintRaises(records) ==
    \E k \in 1..Len(records) :
        \/ ~(PrintedColumns \subseteq DOMAIN records[k])
        \/ records[k].avg_token_price_usd = None

\* What lines 229-260 print for the records of one answer.
AnswerMessages(records) ==
    IF records = <<>> THEN <<"No swap data found">>
    ELSE <<"Price Summary">>
            \o (IF PrintRaises(records) THEN <<"Error querying Flipside">> ELSE <<>>)

\* The branch of line 228: a result set with records is stored.
StoreResult(all, address, timestamp, records) ==
    IF records # <<>>
    THEN Append(all, [address |-> address, tweet_timestamp |-> timestamp,
                      data |-> records])
    ELSE all

\* ------------------------------------------------------------------------
\* Price impact analysis of one dashboard tab
\* ------------------------------------------------------------------------
\* The columns of pd.DataFrame(data): the keys of all records.
Columns(data) == UNION {DOMAIN data[k] : k \in 1..Len(data)}

\* df['hour'] of a record without the key, or with None, is NaT.
HasHour(row) == "hour" \in DOMAIN row /\ row.hour # None

\* Whether pd.to_datetime(df['hour']) of line 128 raises on some value.
HourRaises(data) ==
    \E k \in 1..Len(data) : HasHour(data[k]) /\ to_datetime(data[k].hour) = None

HourOf(row) == to_datetime(row.hour)[1]

\* The values a cell of column avg_token_price_usd can hold.
Float(p) == [kind |-> "float", value |-> p]

NaN == [kind |-> "nan", value |-> 0]

PyNone == [kind |-> "None", value |-> 0]

HasPrice(row) ==
    "avg_token_price_usd" \in DOMAIN row /\ row.avg_token_price_usd # None

\* The price of a row in the frame: a number; None where every record gives
\* None (the column keeps its objects); NaN for any other missing number.
PriceCell(data, row) ==
    IF HasPrice(row) THEN Float(row.avg_token_price_usd[1])
    ELSE IF \A k \in 1..Len(data) :
                /\ "avg_token_price_usd" \in DOMAIN data[k]
                /\ data[k].avg_token_price_usd = None
         THEN PyNone
         ELSE NaN

RECURSIVE InsertByHour(_, _)
InsertByHour(sortedSeq, row) ==
    IF sortedSeq = <<>> THEN <<row>>
    ELSE IF HourOf(row) < HourOf(Head(sortedSeq))
         THEN <<row>> \o sortedSeq
         ELSE <<Head(sortedSeq)>> \o InsertByHour(Tail(sortedSeq), row)

RECURSIVE SortedRowsPrefix(_, _)
SortedRowsPrefix(seq, n) ==
    IF n = 0 THEN <<>> ELSE InsertByHour(SortedRowsPrefix(seq, n - 1), seq[n])

\* df.sort_values('hour')
sort_values(seq) == SortedRowsPrefix(seq, Len(seq))

\* df[df['hour'] >= tweet_dt].sort_values('hour')
PostTweetData(data, tweet_dt) ==
    sort_values(SelectSeq(data, LAMBDA r : HasHour(r) /\ HourOf(r) >= tweet_dt))

\* PreTweetData without the sort.
PreTweetDataUnsorted(data, tweet_dt) ==
    SelectSeq(data, LAMBDA r : HasHour(r) /\ HourOf(r) < tweet_dt)

\* df[df['hour'] < tweet_dt].sort_values('hour')
PreTweetData(data, tweet_dt) ==
    sort_values(SelectSeq(data, LAMBDA r : HasHour(r) /\ HourOf(r) < tweet_dt))

\* HasBothSides without the test of the rows before the tweet.
HasPostOnly(post, pre) == post # <<>>

\* The condition of line 242.
HasBothSides(post, pre) == post # <<>> /\ pre # <<>>

\* ((price_after - price_before) / price_before) * 100 in float64: NaN
\* gives nan; a zero divisor gives inf, -inf or nan (numpy warns and goes
\* on), never an error.
PctChange(price_after, price_before) ==
    LET diff == price_after.value - price_before.value
    IN  IF price_after.kind = "nan" \/ price_before.kind = "nan"
        THEN [kind |-> "nan", num |-> 0, den |-> 0]
        ELSE IF price_before.value # 0
        THEN [kind |-> "finite", num |-> diff * 100, den |-> price_before.value]
        ELSE [kind |-> IF diff > 0 THEN "inf"
                       ELSE IF diff < 0 THEN "-inf" ELSE "nan",
              num |-> 0, den |-> 0]

\* The first statement of the tab that raises on these records, outside any
\* try block: df['hour'] (line 127), pd.to_datetime (128),
\* df['token_symbol'] (133), px.line (149), px.bar (191). None otherwise.
FrameError(data) ==
    IF "hour" \notin Columns(data) THEN Some(<<"KeyError", "hour">>)
    ELSE IF HourRaises(data) THEN Some(<<"ValueError", "hour">>)
    ELSE IF "token_symbol" \notin Columns(data)
         THEN Some(<<"KeyError", "token_symbol">>)
    ELSE IF "avg_token_price_usd" \notin Columns(data)
         THEN Some(<<"ValueError", "px.line">>)
    ELSE IF "swap_count" \notin Columns(data)
         THEN Some(<<"ValueError", "px.bar">>)
    ELSE None

\* What one tab shows and computes for a stored result (lines 118-283).
\* .iloc[-1] and .iloc[0] raise IndexError on an empty frame; the format
\* `:.6f` of line 266 raises TypeError on a price_before that is None.
RenderTab(result) ==
    LET data == result.data
        frame_error == IF data = <<>> THEN None ELSE FrameError(data)
        charts == IF data = <<>> THEN 0
                  ELSE IF frame_error = None THEN 2
                  ELSE IF frame_error[1][2] = "px.bar" THEN 1
                  ELSE 0
        tweet_dt == to_datetime(replace_utc(result.tweet_timestamp))
        framed == data # <<>> /\ frame_error = None /\ tweet_dt # None
        post == IF framed THEN PostTweetData(data, tweet_dt[1]) ELSE <<>>
        pre == IF framed THEN PreTweetData(data, tweet_dt[1]) ELSE <<>>
        entered == framed /\ HasBothSides(post, pre)
        raised == entered /\ (pre = <<>> \/ post = <<>>)
        analysed == entered /\ ~raised
        price_before == IF analysed THEN Some(PriceCell(data, pre[Len(pre)])) ELSE None
        price_after_1h == IF analysed THEN Some(PriceCell(data, post[1])) ELSE None
        price_after_24h == IF analysed THEN Some(PriceCell(data, post[Len(post)])) ELSE None
        change_1h == IF analysed /\ price_after_1h[1] # PyNone
                     THEN Some(PctChange(price_after_1h[1], price_before[1]))
                     ELSE None
        change_24h == IF analysed /\ price_after_24h[1] # PyNone
                      THEN Some(PctChange(price_after_24h[1], price_before[1]))
                      ELSE None
        unformattable == analysed /\ price_before[1] = PyNone
    IN  [address |-> result.address,
         shows |-> IF data = <<>> THEN "no price data"
                   ELSE IF charts = 2 THEN "charts"
                   ELSE IF charts = 1 THEN "price chart"
                   ELSE "nothing",
         marker |-> charts >= 1 /\ tweet_dt # None,
         error |-> IF frame_error # None THEN Some(frame_error[1][1])
                   ELSE IF raised THEN Some("IndexError")
                   ELSE IF unformattable THEN Some("TypeError")
                   ELSE None,
         price_before |-> price_before,
         price_after_1h |-> price_after_1h,
         price_after_24h |-> price_after_24h,
         change_1h |-> change_1h,
         change_24h |-> change_24h,
         metrics |-> IF analysed /\ ~unformattable
                     THEN <<"Price Before Tweet", "First Price After Tweet", "Latest Price">>
                     ELSE <<>>]

\* ------------------------------------------------------------------------
\* Inputs: what the collaborators may hand to the program
\* ------------------------------------------------------------------------
Address1 == Rep("a", MinAddressLen)

Address2 == Rep("B", MaxAddressLen)

\* "buy aaaa...", "BBBB... aaaa... BBBB...", and "éaaaa...", where no word
\* boundary precedes the run
TextPool ==
    {<<"b", "u", "y", " ">> \o Address1,
     Address2 \o <<" ">> \o Address1 \o <<" ">> \o Address2,
     <<"é">> \o Address1}

\* created_at values: two aware ones, as the client parses them, and a
\* naive one.
TimePool ==
    {utc_aware(DateTime(2024, 1, 1, 12, 0, 0, 0)),
     utc_aware(DateTime(2024, 1, 1, 13, 30, 15, 250000)),
     DateTime(2024, 1, 1, 12, 0, 0, 0)}

TweetPool == [text : TextPool, created_at : {<<>>} \cup {<<t>> : t \in TimePool}]

\* The non-empty pages of at most `room` tweets.
Pages(pool, room) == UNION {[1..n -> pool] : n \in 1..room}

TokenPool == {"token-1"}

\* A row of the query's SELECT, with the columns the program reads.
Row(hour, price) ==
    [hour |-> hour, token_symbol |-> "TKN", avg_token_price_usd |-> Some(price),
     swap_count |-> 1]

\* A row whose price is NULL.
NullPriceRow(hour) == [Row(hour, 0) EXCEPT !.avg_token_price_usd = None]

\* The record lists a query may answer with in a whole run.
RecordsPool ==
    {<<Row(<<2024, 1, 1, 11, 0, 0>>, 2), Row(<<2024, 1, 1, 14, 0, 0>>, 4)>>,
     <<Row(<<2024, 1, 1, 14, 0, 0>>, 4)>>}

\* ------------------------------------------------------------------------
\* State
\* ------------------------------------------------------------------------
VARIABLES
    pc,               \* position in the run
    mode,             \* "cli" (extractor.main) or "dashboard" (streamlit_app)
    username,
    client,           \* None or Some("client")
    request_count,
    pagination_token,
    tweets,           \* get_user_tweets' list, then main's
    received,         \* the posts of the pages fetched so far (history)
    next_tokens,      \* the next_token of each response, None if absent (history)
    api_log,          \* the calls made to the social API (history)
    sorted_tweets,
    ti,               \* index of the tweet being scanned
    ai,               \* index of the address within that tweet
    address_dict,
    results,
    addresses,
    timestamps,
    qi,               \* index of the address being queried
    all_results,
    queries,          \* the queries submitted to the analytics service (history)
    outcomes,         \* what each submitted query did (history)
    flipside_results,
    tab_i,
    tabs_out,         \* what each tab rendered
    output,           \* the messages shown to the user
    exception,        \* None, or Some(name) of an exception nothing caught
    text,             \* the argument of a direct call of extract_solana_addresses
    runs,
    valid_addresses

fetchVars == <<client, request_count, pagination_token, tweets, received,
               next_tokens, api_log>>

foldVars == <<sorted_tweets, ti, ai, address_dict, results>>

queryVars == <<addresses, timestamps, qi, all_results, queries, outcomes, flipside_results>>

tabVars == <<tab_i, tabs_out>>

extractVars == <<text, runs, valid_addresses>>

vars == <<pc, mode, username, fetchVars, foldVars, queryVars, tabVars,
          extractVars, output, exception>>

FetchIdle ==
    /\ client = None /\ request_count = 0 /\ pagination_token = None
    /\ tweets = <<>> /\ received = <<>> /\ next_tokens = <<>> /\ api_log = <<>>

FoldIdle ==
    /\ sorted_tweets = <<>> /\ ti = 1 /\ ai = 1 /\ address_dict = <<>>
    /\ results = <<>>

QueryIdle ==
    /\ addresses = <<>> /\ timestamps = <<>> /\ qi = 1 /\ all_results = <<>>
    /\ queries = <<>> /\ outcomes = <<>> /\ flipside_results = <<>>

TabIdle == tab_i = 1 /\ tabs_out = <<>>

ExtractIdle == text = <<>> /\ runs = 0 /\ valid_addresses = <<>>

\* A run of the CLI or of the dashboard's Analyze Tweets button.
Init ==
    /\ pc = "start"
    /\ mode \in {"cli", "dashboard"}
    /\ username \in {"", "alice"}
    /\ FetchIdle /\ FoldIdle /\ QueryIdle /\ TabIdle /\ ExtractIdle
    /\ output = <<>> /\ exception = None

\* ------------------------------------------------------------------------
\* Start of a run and authenticate_twitter_api
\* ------------------------------------------------------------------------
Say(msg) == output' = Append(output, msg)

\* streamlit_app: `if not username` shows an error and does nothing else.
DashboardNoUsername ==
    /\ pc = "start" /\ mode = "dashboard" /\ username = ""
    /\ Say("Please enter a Twitter username")
    /\ pc' = "done"
    /\ UNCHANGED <<mode, username, fetchVars, foldVars, queryVars, tabVars,
                   extractVars, exception>>

CanAuthenticate == pc = "start" /\ (mode = "cli" \/ username # "")

\* AuthFails without the `if not client` test: the run goes on to
\* get_user_tweets.
AuthFailsGoesOn ==
    /\ CanAuthenticate
    /\ client' = None
    /\ output' = output \o <<"Error during authentication">>
    /\ pc' = "get_user"
    /\ UNCHANGED <<mode, username, request_count, pagination_token, tweets,
                   received, next_tokens, api_log, foldVars, queryVars, tabVars,
                   extractVars, exception>>

\* tweepy.Client(...) raises: authenticate_twitter_api prints the error and
\* returns None; main returns, the dashboard shows st.error and does nothing
\* else.
AuthFails ==
    /\ CanAuthenticate
    /\ client' = None
    /\ output' = output \o <<"Error during authentication">>
                        \o (IF mode = "dashboard"
                            THEN <<"Failed to authenticate with Twitter API">>
                            ELSE <<>>)
    /\ pc' = "done"
    /\ UNCHANGED <<mode, username, request_count, pagination_token, tweets,
                   received, next_tokens, api_log, foldVars, queryVars, tabVars,
                   extractVars, exception>>

AuthSucceeds ==
    /\ CanAuthenticate
    /\ client' = Some("client")
    /\ Say("Fetching tweets")
    /\ pc' = "get_user"
    /\ UNCHANGED <<mode, username, request_count, pagination_token, tweets,
                   received, next_tokens, api_log, foldVars, queryVars, tabVars,
                   extractVars, exception>>

\* ------------------------------------------------------------------------
\* get_user_tweets
\* ------------------------------------------------------------------------
Call(op, token) == [op |-> op, token |-> token]

\* client.get_user raises: the except clause returns [].
GetUserRaises ==
    /\ pc = "get_user"
    /\ api_log' = Append(api_log, Call("get_user", None))
    /\ tweets' = <<>>
    /\ Say("Error fetching tweets")
    /\ pc' = "fetched"
    /\ UNCHANGED <<mode, username, client, request_count, pagination_token,
                   received, next_tokens, foldVars, queryVars, tabVars,
                   extractVars, exception>>

\* GetUserNotFound without the `return []`: the loop is entered.
GetUserNotFoundGoesOn ==
    /\ pc = "get_user"
    /\ api_log' = Append(api_log, Call("get_user", None))
    /\ tweets' = <<>>
    /\ Say("User not found")
    /\ pc' = "loop"
    /\ UNCHANGED <<mode, username, client, request_count, pagination_token,
                   received, next_tokens, foldVars, queryVars, tabVars,
                   extractVars, exception>>

\* user_response.data is empty: return [].
GetUserNotFound ==
    /\ pc = "get_user"
    /\ api_log' = Append(api_log, Call("get_user", None))
    /\ tweets' = <<>>
    /\ Say("User not found")
    /\ pc' = "fetched"
    /\ UNCHANGED <<mode, username, client, request_count, pagination_token,
                   received, next_tokens, foldVars, queryVars, tabVars,
                   extractVars, exception>>

GetUserFound ==
    /\ pc = "get_user"
    /\ api_log' = Append(api_log, Call("get_user", None))
    /\ tweets' = <<>>
    /\ pagination_token' = None
    /\ request_count' = 0
    /\ pc' = "loop"
    /\ UNCHANGED <<mode, username, client, received, next_tokens, foldVars, queryVars,
                   tabVars, extractVars, output, exception>>

\* WithinCap with the test of the cap made inclusive.
WithinCapInclusive(count) == count <= max_requests

\* The loop test `request_count < max_requests`.
WithinCap(count) == count < max_requests

InLoop == pc = "loop" /\ WithinCap(request_count)

\* get_users_tweets raises: the except clause returns [].
RequestRaises ==
    /\ InLoop
    /\ request_count' = request_count + 1
    /\ api_log' = Append(api_log, Call("get_users_tweets", pagination_token))
    /\ tweets' = <<>>
    /\ Say("Error fetching tweets")
    /\ pc' = "fetched"
    /\ UNCHANGED <<mode, username, client, pagination_token, received, next_tokens,
                   foldVars, queryVars, tabVars, extractVars, exception>>

\* response.data is empty: break, return tweets.
RequestNoData ==
    /\ InLoop
    /\ request_count' = request_count + 1
    /\ api_log' = Append(api_log, Call("get_users_tweets", pagination_token))
    /\ next_tokens' = Append(next_tokens, None)
    /\ pc' = "fetched"
    /\ UNCHANGED <<mode, username, client, pagination_token, tweets, received,
                   foldVars, queryVars, tabVars, extractVars, output, exception>>

\* A page of tweets; next is None or Some(next_token). The iteration ends
\* with the loop test: without a next_token, or after max_requests requests,
\* get_user_tweets returns.
RequestData(page, next) ==
    /\ InLoop
    /\ request_count' = request_count + 1
    /\ api_log' = Append(api_log, Call("get_users_tweets", pagination_token))
    /\ tweets' = tweets \o page
    /\ received' = received \o page
    /\ next_tokens' = Append(next_tokens, next)
    /\ pagination_token' = IF next = None THEN pagination_token ELSE next
    /\ pc' = IF next # None /\ WithinCap(request_count + 1)
             THEN "loop" ELSE "fetched"
    /\ UNCHANGED <<mode, username, client, foldVars, queryVars, tabVars,
                   extractVars, output, exception>>

\* ------------------------------------------------------------------------
\* main / Analyze Tweets: the scan of the fetched tweets
\* ------------------------------------------------------------------------
NoTweets ==
    /\ pc = "fetched" /\ tweets = <<>>
    /\ Say("No tweets found")
    /\ pc' = "done"
    /\ UNCHANGED <<mode, username, fetchVars, foldVars, queryVars, tabVars,
                   extractVars, exception>>

\* Lines 281-289; sorted() is outside any try block, so its TypeError ends
\* the run.
SortStep ==
    /\ pc = "fetched" /\ tweets # <<>>
    /\ Say("Scanning for Solana addresses")
    /\ address_dict' = <<>>
    /\ ti' = 1 /\ ai' = 1
    /\ IF SortTweets(tweets) = None
       THEN /\ exception' = Some("TypeError")
            /\ pc' = "crashed"
            /\ UNCHANGED sorted_tweets
       ELSE /\ sorted_tweets' = SortTweets(tweets)[1]
            /\ pc' = "fold"
            /\ UNCHANGED exception
    /\ UNCHANGED <<mode, username, fetchVars, results, queryVars, tabVars,
                   extractVars>>

CurrentAddresses == extract_solana_addresses(sorted_tweets[ti].text)

\* One pass of the inner loop `for address in addresses`.
FoldAddress ==
    /\ pc = "fold" /\ ti <= Len(sorted_tweets) /\ ai <= Len(CurrentAddresses)
    /\ IF StoreTestRaises(address_dict, CurrentAddresses[ai],
                          SortKey(sorted_tweets[ti]))
       THEN /\ exception' = Some("TypeError")
            /\ pc' = "crashed"
            /\ UNCHANGED <<address_dict, ai>>
       ELSE /\ address_dict' = FoldAddressInto(address_dict, sorted_tweets[ti],
                                               CurrentAddresses[ai])
            /\ ai' = ai + 1
            /\ UNCHANGED <<pc, exception>>
    /\ UNCHANGED <<mode, username, fetchVars, sorted_tweets, ti, results,
                   queryVars, tabVars, extractVars, output>>

FoldNextTweet ==
    /\ pc = "fold" /\ ti <= Len(sorted_tweets) /\ ai > Len(CurrentAddresses)
    /\ ti' = ti + 1 /\ ai' = 1
    /\ UNCHANGED <<pc, mode, username, fetchVars, sorted_tweets, address_dict,
                   results, queryVars, tabVars, extractVars, output, exception>>

FoldDone ==
    /\ pc = "fold" /\ ti > Len(sorted_tweets)
    /\ results' = ResultsOf(address_dict)
    /\ pc' = "display"
    /\ UNCHANGED <<mode, username, fetchVars, sorted_tweets, ti, ai,
                   address_dict, queryVars, tabVars, extractVars, output,
                   exception>>

NoAddresses ==
    /\ pc = "display" /\ results = <<>>
    /\ Say("No Solana contract addresses found")
    /\ pc' = "done"
    /\ UNCHANGED <<mode, username, fetchVars, foldVars, queryVars, tabVars,
                   extractVars, exception>>

\* CLI: the answer to "Do you want to query Flipside" is not 'y'.
ChoiceNo ==
    /\ pc = "display" /\ results # <<>> /\ mode = "cli"
    /\ Say("Found unique Solana contract addresses")
    /\ pc' = "done"
    /\ UNCHANGED <<mode, username, fetchVars, foldVars, queryVars, tabVars,
                   extractVars, exception>>

\* CLI with the answer 'y', and the dashboard always: call
\* query_flipside_data(addresses, timestamps).
StartQuery ==
    /\ pc = "display" /\ results # <<>>
    /\ Say("Found unique Solana contract addresses")
    /\ addresses' = [k \in 1..Len(results) |-> results[k][1]]
    /\ timestamps' = [k \in 1..Len(results) |-> results[k][2]]
    /\ qi' = 1
    /\ all_results' = <<>>
    /\ pc' = "query"
    /\ UNCHANGED <<mode, username, fetchVars, foldVars, queries, outcomes,
                   flipside_results, tabVars, extractVars, exception>>

\* ------------------------------------------------------------------------
\* query_flipside_data: one action per pass of the loop over the addresses
\* ------------------------------------------------------------------------
AtQuery == pc = "query" /\ qi <= Len(addresses) /\ qi <= Len(timestamps)

\* Lines 161-165 are outside the try block: a timestamp strptime cannot
\* parse, or whose window leaves the range of datetime, raises out of
\* query_flipside_data and out of its caller.
QueryBadTimestamp ==
    /\ AtQuery
    /\ LoopHeadError(timestamps[qi]) # None
    /\ exception' = LoopHeadError(timestamps[qi])
    /\ pc' = "crashed"
    /\ UNCHANGED <<mode, username, fetchVars, foldVars, queryVars, tabVars,
                   extractVars, output>>

\* flipside.query(sql) raises: caught, logged, next address.
QueryRaises ==
    /\ AtQuery
    /\ LoopHeadError(timestamps[qi]) = None
    /\ queries' = Append(queries, BuildSql(addresses[qi], strptime_utc(timestamps[qi])[1]))
    /\ outcomes' = Append(outcomes, "raised")
    /\ Say("Error querying Flipside")
    /\ qi' = qi + 1
    /\ UNCHANGED <<pc, mode, username, fetchVars, foldVars, addresses,
                   timestamps, all_results, flipside_results, tabVars,
                   extractVars, exception>>

\* flipside.query(sql) returns; records is <<>> for no result set or no rows.
QueryAnswers(records) ==
    /\ AtQuery
    /\ LoopHeadError(timestamps[qi]) = None
    /\ queries' = Append(queries, BuildSql(addresses[qi], strptime_utc(timestamps[qi])[1]))
    /\ outcomes' = Append(outcomes, IF records = <<>> THEN "empty" ELSE "rows")
    /\ all_results' = StoreResult(all_results, addresses[qi], timestamps[qi], records)
    /\ output' = output \o AnswerMessages(records)
    /\ qi' = qi + 1
    /\ UNCHANGED <<pc, mode, username, fetchVars, foldVars, addresses,
                   timestamps, flipside_results, tabVars, extractVars, exception>>

\* return all_results
QueryReturn ==
    /\ pc = "query" /\ ~(qi <= Len(addresses) /\ qi <= Len(timestamps))
    /\ flipside_results' = all_results
    /\ pc' = "queried"
    /\ UNCHANGED <<mode, username, fetchVars, foldVars, addresses, timestamps,
                   qi, all_results, queries, outcomes, tabVars, extractVars,
                   output, exception>>

\* main, lines 340-343.
CliReport ==
    /\ pc = "queried" /\ mode = "cli"
    /\ Say(IF flipside_results # <<>>
           THEN "All Flipside queries completed successfully"
           ELSE "No Flipside data was found")
    /\ pc' = "done"
    /\ UNCHANGED <<mode, username, fetchVars, foldVars, queryVars, tabVars,
                   extractVars, exception>>

\* streamlit_app, line 285.
DashboardNoData ==
    /\ pc = "queried" /\ mode = "dashboard" /\ flipside_results = <<>>
    /\ Say("No Flipside data was found")
    /\ pc' = "done"
    /\ UNCHANGED <<mode, username, fetchVars, foldVars, queryVars, tabVars,
                   extractVars, exception>>

\* streamlit_app, lines 110-114: one tab per stored result.
DashboardTabs ==
    /\ pc = "queried" /\ mode = "dashboard" /\ flipside_results # <<>>
    /\ tab_i' = 1 /\ tabs_out' = <<>>
    /\ Say("Price Analysis")
    /\ pc' = "tabs"
    /\ UNCHANGED <<mode, username, fetchVars, foldVars, queryVars,
                   extractVars, exception>>

\* One pass of `for i, (tab, result) in enumerate(zip(tabs, flipside_results))`.
TabRender ==
    /\ pc = "tabs" /\ tab_i <= Len(flipside_results)
    /\ LET tab == RenderTab(flipside_results[tab_i])
       IN  /\ tabs_out' = Append(tabs_out, tab)
           /\ exception' = tab.error
           /\ pc' = IF tab.error = None THEN "tabs" ELSE "crashed"
    /\ tab_i' = tab_i + 1
    /\ UNCHANGED <<mode, username, fetchVars, foldVars, queryVars,
                   extractVars, output>>

TabsDone ==
    /\ pc = "tabs" /\ tab_i > Len(flipside_results)
    /\ pc' = "done"
    /\ UNCHANGED <<mode, username, fetchVars, foldVars, queryVars, tabVars,
                   extractVars, output, exception>>

\* ------------------------------------------------------------------------
\* The whole run
\* ------------------------------------------------------------------------
Next ==
    \/ DashboardNoUsername
    \/ AuthFails
    \/ AuthSucceeds
    \/ GetUserRaises
    \/ GetUserNotFound
    \/ GetUserFound
    \/ RequestRaises
    \/ RequestNoData
    \/ \E page \in Pages(TweetPool, MaxRunTweets - Len(tweets)),
          next \in {None} \cup {Some(t) : t \in TokenPool} :
            RequestData(page, next)
    \/ NoTweets
    \/ SortStep
    \/ FoldAddress
    \/ FoldNextTweet
    \/ FoldDone
    \/ NoAddresses
    \/ ChoiceNo
    \/ StartQuery
    \/ QueryBadTimestamp
    \/ QueryRaises
    \/ \E records \in {<<>>} \cup RecordsPool : QueryAnswers(records)
    \/ QueryReturn
    \/ CliReport
    \/ DashboardNoData
    \/ DashboardTabs
    \/ TabRender
    \/ TabsDone

Spec == Init /\ [][Next]_vars

\* ------------------------------------------------------------------------
\* The scan on its own: get_user_tweets has returned one page of tweets
\* ------------------------------------------------------------------------
InitFold ==
    /\ pc = "fetched"
    /\ mode \in {"cli", "dashboard"}
    /\ username = "alice"
    /\ client = Some("client")
    /\ request_count = 1
    /\ pagination_token = None
    /\ tweets \in Pages(TweetPool, MaxTweets)
    /\ received = tweets
    /\ next_tokens = <<None>>
    /\ api_log = <<Call("get_user", None), Call("get_users_tweets", None)>>
    /\ FoldIdle /\ QueryIdle /\ TabIdle /\ ExtractIdle
    /\ output = <<"Fetching tweets">> /\ exception = None

NextFold ==
    \/ SortStep
    \/ FoldAddress
    \/ FoldNextTweet
    \/ FoldDone

SpecFold == InitFold /\ [][NextFold]_vars

\* ------------------------------------------------------------------------
\* get_user_tweets on its own: every response may carry a next_token
\* ------------------------------------------------------------------------
\* The page that answers request k with n tweets; no two pages share a tweet.
PageOf(k, n) ==
    [j \in 1..n |-> [text |-> <<"g", "m">>,
                     created_at |-> Some(utc_aware(DateTime(2024, 1, 1, 12, k, j, 0)))]]

\* The cursor that the response to request k hands out.
CursorOf(k) == k

\* authenticate_twitter_api has returned a client.
InitFetch ==
    /\ pc = "get_user"
    /\ mode \in {"cli", "dashboard"}
    /\ username = "alice"
    /\ client = Some("client")
    /\ request_count = 0 /\ pagination_token = None
    /\ tweets = <<>> /\ received = <<>> /\ next_tokens = <<>> /\ api_log = <<>>
    /\ FoldIdle /\ QueryIdle /\ TabIdle /\ ExtractIdle
    /\ output = <<"Fetching tweets">> /\ exception = None

NextFetch ==
    \/ GetUserRaises
    \/ GetUserNotFound
    \/ GetUserFound
    \/ RequestRaises
    \/ RequestNoData
    \/ \E n \in 1..MaxPageLen, more \in BOOLEAN :
          RequestData(PageOf(request_count + 1, n),
                      IF more THEN Some(CursorOf(request_count + 1)) ELSE None)

SpecFetch == InitFetch /\ [][NextFetch]_vars

\* ------------------------------------------------------------------------
\* query_flipside_data called on its own
\* ------------------------------------------------------------------------
Address3 == Rep("7", 40)

AddressPool == {Address1, Address2, Address3}

\* Reference times whose windows cross a day, a month, a leap day and a year,
\* and one whose window ends after datetime.max.
QueryTimePool ==
    {DateTime(2024, 1, 1, 12, 0, 0, 0),
     DateTime(2024, 1, 1, 0, 30, 0, 0),
     DateTime(2024, 2, 28, 23, 59, 59, 0),
     DateTime(2023, 2, 28, 1, 0, 0, 0),
     DateTime(2024, 3, 1, 1, 59, 59, 0),
     DateTime(2024, 12, 31, 22, 0, 1, 0),
     DateTime(9999, 12, 31, 10, 0, 0, 0)}

\* What main puts in its timestamps list: a formatted time or "Unknown".
TimestampPool == {<<"Unknown">>} \cup {strftime_utc(t) : t \in QueryTimePool}

\* The lists of n distinct addresses.
DistinctAddresses(n) ==
    {a \in [1..n -> AddressPool] : \A j, k \in 1..n : j # k => a[j] # a[k]}

InitQuery ==
    /\ pc = "query"
    /\ mode = "cli"
    /\ username = "alice"
    /\ \E n \in 1..MaxAddresses :
          /\ addresses \in DistinctAddresses(n)
          /\ timestamps \in [1..n -> TimestampPool]
    /\ qi = 1 /\ all_results = <<>> /\ queries = <<>> /\ outcomes = <<>>
    /\ flipside_results = <<>>
    /\ FetchIdle /\ FoldIdle /\ TabIdle /\ ExtractIdle
    /\ output = <<>> /\ exception = None

\* An answer whose record lacks columns of the SELECT.
PartialRecords ==
    <<[hour |-> <<2024, 1, 1, 11, 0, 0>>, avg_token_price_usd |-> Some(2)]>>

\* Records with every column, one of them without a price.
NullPriceRecords ==
    <<Row(<<2024, 1, 1, 11, 0, 0>>, 2), NullPriceRow(<<2024, 1, 1, 14, 0, 0>>)>>

\* What a query may answer with when query_flipside_data is run on its own.
QueryRecordsPool ==
    {<<>>, <<Row(<<2024, 1, 1, 14, 0, 0>>, 4)>>, PartialRecords, NullPriceRecords}

NextQuery ==
    \/ QueryBadTimestamp
    \/ QueryRaises
    \/ \E records \in QueryRecordsPool : QueryAnswers(records)
    \/ QueryReturn

SpecQuery == InitQuery /\ [][NextQuery]_vars

\* ------------------------------------------------------------------------
\* One dashboard tab on its own: the price impact analysis
\* ------------------------------------------------------------------------
ImpactTimestamp == <<2024, 1, 1, 12, 0, 0, "UTC">>

\* t - 3h, t - 1h, t, t + 1h, t + 25h
HourPool ==
    {<<2024, 1, 1, 9, 0, 0>>, <<2024, 1, 1, 11, 0, 0>>, <<2024, 1, 1, 12, 0, 0>>,
     <<2024, 1, 1, 13, 0, 0>>, <<2024, 1, 2, 13, 0, 0>>}

PricePool == {0, 1, 2, 4, 8}

\* The lists of m different hours, in any order.
DistinctHours(m) ==
    {h \in [1..m -> HourPool] : \A j, k \in 1..m : j # k => h[j] # h[k]}

\* The tab of one stored result: at most MaxRows rows, one row per hour, in
\* any order.
InitImpact ==
    /\ pc = "tabs"
    /\ mode = "dashboard"
    /\ username = "alice"
    /\ \E m \in 1..MaxRows :
          \E h \in DistinctHours(m) :
             \E p \in [1..m -> PricePool] :
                flipside_results =
                   <<[address |-> Address1,
                      tweet_timestamp |-> ImpactTimestamp,
                      data |-> [j \in 1..m |-> Row(h[j], p[j])]]>>
    /\ all_results = flipside_results
    /\ addresses = <<Address1>> /\ timestamps = <<ImpactTimestamp>>
    /\ qi = 2 /\ queries = <<>> /\ outcomes = <<>>
    /\ FetchIdle /\ FoldIdle /\ TabIdle /\ ExtractIdle
    /\ output = <<>> /\ exception = None

NextImpact == TabRender

SpecImpact == InitImpact /\ [][NextImpact]_vars

\* ------------------------------------------------------------------------
\* extract_solana_addresses called on its own
\* ------------------------------------------------------------------------
\* A Base58 character, an ASCII and a non-ASCII word character outside
\* Base58, and a non-word character.
CharPool == {"a", "0", "é", " "}

RunLengths == {1, MinAddressLen - 1, MinAddressLen, MaxAddressLen, MaxAddressLen + 1}

InitExtract ==
    /\ pc = "text"
    /\ mode = "cli"
    /\ username = "alice"
    /\ FetchIdle /\ FoldIdle /\ QueryIdle /\ TabIdle /\ ExtractIdle
    /\ output = <<>> /\ exception = None

\* The caller's text grows by a run of one character.
AppendRun(c, n) ==
    /\ pc = "text" /\ runs < MaxRuns
    /\ text' = text \o Rep(c, n)
    /\ runs' = runs + 1
    /\ UNCHANGED <<pc, mode, username, fetchVars, foldVars, queryVars, tabVars,
                   valid_addresses, output, exception>>

ExtractCall ==
    /\ pc = "text"
    /\ valid_addresses' = extract_solana_addresses(text)
    /\ pc' = "extracted"
    /\ UNCHANGED <<mode, username, fetchVars, foldVars, queryVars, tabVars,
                   text, runs, output, exception>>

NextExtract ==
    \/ \E c \in CharPool, n \in RunLengths : AppendRun(c, n)
    \/ ExtractCall

SpecExtract == InitExtract /\ [][NextExtract]_vars

\* ------------------------------------------------------------------------
\* Properties
\* ------------------------------------------------------------------------
Elements(seq) == {seq[k] : k \in 1..Len(seq)}

AddressesIn(tweet) == Elements(extract_solana_addresses(tweet.text))

\* The tweets (by index, in the fetcher's order) that mention an address.
PostsMentioning(address) ==
    {j \in 1..Len(tweets) : address \in AddressesIn(tweets[j])}

Earliest(dated) ==
    CHOOSE j \in dated :
        \A i \in dated : ~datetime_lt(tweets[i].created_at[1], tweets[j].created_at[1])

\* C1: after the fold, whatever order the fetcher returned the posts in, the
\* mapping holds exactly the addresses the posts mention, and the time
\* recorded for each is the minimum created_at over the posts that contain
\* it (a post without created_at counts as maximally late, "Unknown").
\* Posts that all carry a created_at as the client parses it (aware) always
\* get through the sort and the fold.
C1_EarliestMentionIsMinimum ==
    /\ (\A j \in 1..Len(tweets) :
            has_created_at(tweets[j]) /\ tweets[j].created_at[1].tzinfo # None)
          => pc # "crashed"
    /\ pc = "display" =>
        /\ {address_dict[k].address : k \in 1..Len(address_dict)}
              = UNION {AddressesIn(tweets[j]) : j \in 1..Len(tweets)}
        /\ \A k \in 1..Len(address_dict) :
              LET posts == PostsMentioning(address_dict[k].address)
                  dated == {j \in posts : has_created_at(tweets[j])}
              IN  IF dated = {}
                  THEN /\ address_dict[k].timestamp = <<"Unknown">>
                       /\ address_dict[k].datetime = datetime_max
                  ELSE LET min == tweets[Earliest(dated)].created_at[1]
                       IN  /\ address_dict[k].datetime = min
                           /\ address_dict[k].timestamp = strftime_utc(min)

\* The fetcher returned a later mention before an earlier one of the same
\* address, and the fold recorded the earlier time.
C1_Witness ==
    /\ pc = "display"
    /\ \E k \in 1..Len(address_dict), i, j \in 1..Len(tweets) :
          /\ i < j
          /\ {i, j} \subseteq PostsMentioning(address_dict[k].address)
          /\ has_created_at(tweets[i]) /\ has_created_at(tweets[j])
          /\ datetime_lt(tweets[j].created_at[1], tweets[i].created_at[1])
          /\ address_dict[k].datetime = tweets[j].created_at[1]

\* C2: when a request fails after at least one page was fetched,
\* get_user_tweets returns the posts of the pages fetched so far.
C2_PartialProgressReturned ==
    (/\ pc = "fetched"
     /\ received # <<>>
     /\ output[Len(output)] = "Error fetching tweets")
        => tweets = received

QueryOver == pc \in {"queried", "crashed"} /\ addresses # <<>>

\* C3: once query_flipside_data is over, if the query of some address
\* raised, a query was still issued for every address, and every address
\* whose query answered with rows is in the returned list.
C3_LaterQueriesStillIssued ==
    (QueryOver /\ "raised" \in Elements(outcomes)) =>
        /\ Len(queries) = Len(addresses)
        /\ \A k \in 1..Len(outcomes) :
              outcomes[k] = "rows" =>
                  \E j \in 1..Len(flipside_results) :
                      flipside_results[j].address = addresses[k]

\* C4: the list query_flipside_data returns has exactly one entry per input
\* address, in order; a failed or empty query leaves an entry without data.
C4_OneEntryPerAddress ==
    pc = "queried" =>
        /\ Len(flipside_results) = Len(addresses)
        /\ \A k \in 1..Len(flipside_results) :
              flipside_results[k].address = addresses[k]

\* C5: a post without timestamp whose text contains an address never aborts
\* the run: no exception escapes.
C5_MissingTimestampNeverAborts ==
    \/ exception = None
    \/ ~\E k \in 1..Len(tweets) :
            ~has_created_at(tweets[k]) /\ AddressesIn(tweets[k]) # {}

\* C6: the interval of every submitted query is [t - 2 hours, t + 24 hours]
\* for the reference time t of its address; 2024-01-01 12:00:00 gives
\* 2024-01-01 10:00:00 to 2024-01-02 12:00:00.
C6_WindowIsTwoHoursBeforeToDayAfter ==
    \A k \in 1..Len(queries) :
        LET t == strptime_utc(timestamps[k])[1]
            from == queries[k].between_from
            to == queries[k].between_to
        IN  /\ queries[k].address = addresses[k]
            /\ to_datetime(from) = Some(UnixSeconds(t) - 7200)
            /\ to_datetime(to) = Some(UnixSeconds(t) + 86400)
            /\ timestamps[k] = <<2024, 1, 1, 12, 0, 0, "UTC">> =>
                  /\ from = <<2024, 1, 1, 10, 0, 0>>
                  /\ to = <<2024, 1, 2, 12, 0, 0>>

\* The example of the claim was queried, and so was a window that starts on
\* a leap day.
C6_Witness ==
    /\ \E k \in 1..Len(queries) :
          /\ timestamps[k] = <<2024, 1, 1, 12, 0, 0, "UTC">>
          /\ queries[k].between_to = <<2024, 1, 2, 12, 0, 0>>
    /\ \E k \in 1..Len(queries) :
          queries[k].between_from = <<2024, 2, 29, 23, 59, 59>>

\* The reference time of the k-th tab, and its rows before and from it.
TabTime(k) == to_datetime(replace_utc(flipside_results[k].tweet_timestamp))[1]

RowsBefore(k) ==
    {j \in 1..Len(flipside_results[k].data) :
        HourOf(flipside_results[k].data[j]) < TabTime(k)}

RowsFrom(k) ==
    {j \in 1..Len(flipside_results[k].data) :
        HourOf(flipside_results[k].data[j]) >= TabTime(k)}

PriceAt(k, j) == flipside_results[k].data[j].avg_token_price_usd[1]

LatestOf(k, S) ==
    CHOOSE j \in S : \A i \in S :
        HourOf(flipside_results[k].data[i]) <= HourOf(flipside_results[k].data[j])

EarliestOf(k, S) ==
    CHOOSE j \in S : \A i \in S :
        HourOf(flipside_results[k].data[j]) <= HourOf(flipside_results[k].data[i])

\* change is the percentage (after - before) / before * 100.
IsPct(change, after, before) ==
    /\ change # None
    /\ change[1].kind = "finite"
    /\ change[1].den # 0
    /\ change[1].num * before = (after - before) * 100 * change[1].den

ExampleRows ==
    {Row(<<2024, 1, 1, 9, 0, 0>>, 1), Row(<<2024, 1, 1, 11, 0, 0>>, 2),
     Row(<<2024, 1, 1, 13, 0, 0>>, 4), Row(<<2024, 1, 2, 13, 0, 0>>, 8)}

\* C7: with rows on both sides of t, in any order, price_before is the price
\* of the latest row before t, price_after_1h that of the earliest row from
\* t on, price_after_24h that of the latest row, and each percentage is
\* (price - price_before) / price_before * 100; the rows (t-3h, 1),
\* (t-1h, 2), (t+1h, 4), (t+25h, 8) give 2, 4, 8, 100 and 300.
C7_ImpactOfRowsOnBothSides ==
    \A k \in 1..Len(tabs_out) :
        (RowsBefore(k) # {} /\ RowsFrom(k) # {}) =>
            LET before == PriceAt(k, LatestOf(k, RowsBefore(k)))
                first == PriceAt(k, EarliestOf(k, RowsFrom(k)))
                latest == PriceAt(k, LatestOf(k, RowsFrom(k)))
            IN  /\ tabs_out[k].price_before = Some(Float(before))
                /\ tabs_out[k].price_after_1h = Some(Float(first))
                /\ tabs_out[k].price_after_24h = Some(Float(latest))
                /\ before # 0 =>
                      /\ IsPct(tabs_out[k].change_1h, first, before)
                      /\ IsPct(tabs_out[k].change_24h, latest, before)
                /\ Elements(flipside_results[k].data) = ExampleRows =>
                      /\ before = 2 /\ first = 4 /\ latest = 8
                      /\ tabs_out[k].change_1h[1].num = 100 * tabs_out[k].change_1h[1].den
                      /\ tabs_out[k].change_24h[1].num = 300 * tabs_out[k].change_24h[1].den

\* The example rows, handed over latest first, were analysed.
C7_Witness ==
    /\ Len(tabs_out) = 1
    /\ flipside_results[1].data =
          <<Row(<<2024, 1, 2, 13, 0, 0>>, 8), Row(<<2024, 1, 1, 13, 0, 0>>, 4),
            Row(<<2024, 1, 1, 11, 0, 0>>, 2), Row(<<2024, 1, 1, 9, 0, 0>>, 1)>>
    /\ tabs_out[1].price_before = Some(Float(2))
    /\ tabs_out[1].price_after_24h = Some(Float(8))

\* C8: with no row before t, the tab has no price_before, computes and shows
\* no percentage, and raises nothing.
C8_NoRowsBeforeNoPercentage ==
    \A k \in 1..Len(tabs_out) :
        RowsBefore(k) = {} =>
            /\ tabs_out[k].price_before = None
            /\ tabs_out[k].change_1h = None
            /\ tabs_out[k].change_24h = None
            /\ tabs_out[k].metrics = <<>>
            /\ tabs_out[k].error = None
            /\ exception = None
            /\ pc # "crashed"

\* A tab was rendered for rows that all lie at or after t.
C8_Witness ==
    /\ Len(tabs_out) = 1
    /\ RowsBefore(1) = {}
    /\ Cardinality(RowsFrom(1)) >= 2
    /\ tabs_out[1].shows = "charts"

\* C9: when price_before is zero, neither percentage is computed or shown.
C9_ZeroPriceBeforeNoPercentage ==
    \A k \in 1..Len(tabs_out) :
        tabs_out[k].price_before = Some(Float(0)) =>
            /\ tabs_out[k].change_1h = None
            /\ tabs_out[k].change_24h = None

IsSubstringAt(addr, i) ==
    /\ i >= 1 /\ i + Len(addr) - 1 <= Len(text)
    /\ SubSeq(text, i, i + Len(addr) - 1) = addr

\* C10: every string extract_solana_addresses returns is a contiguous
\* substring of the text, 32 to 44 characters long, of Base58 characters
\* only (so none of 0, O, I, l); an empty text gives the empty list.
C10_OnlyBase58Substrings ==
    pc = "extracted" =>
        /\ \A k \in 1..Len(valid_addresses) :
              /\ Len(valid_addresses[k]) >= 32
              /\ Len(valid_addresses[k]) <= 44
              /\ \A j \in 1..Len(valid_addresses[k]) :
                    /\ valid_addresses[k][j] \in Base58
                    /\ valid_addresses[k][j] \notin {"0", "O", "I", "l"}
              /\ \E i \in 1..Len(text) : IsSubstringAt(valid_addresses[k], i)
        /\ text = <<>> => valid_addresses = <<>>

\* A text with a 32-character and a 44-character address was scanned.
C10_Witness ==
    /\ pc = "extracted"
    /\ Len(valid_addresses) = 2
    /\ Len(valid_addresses[1]) = 32
    /\ Len(valid_addresses[2]) = 44

\* The positions where a maximal run of Base58 characters of the text starts
\* and where one ends.
RunStarts ==
    {i \in 1..Len(text) : text[i] \in Base58 /\ (i = 1 \/ text[i - 1] \notin Base58)}

RunEnds ==
    {j \in 1..Len(text) :
        text[j] \in Base58 /\ (j = Len(text) \/ text[j + 1] \notin Base58)}

RunEnd(i) == CHOOSE j \in RunEnds : j >= i /\ \A e \in RunEnds : e >= i => j <= e

\* The maximal runs of 32 to 44 characters, by their start.
SizedRuns ==
    {i \in RunStarts : RunEnd(i) - i + 1 >= 32 /\ RunEnd(i) - i + 1 <= 44}

\* The runs that have a string edge or a non-word character on each side.
WordBoundedRuns ==
    {i \in SizedRuns :
        /\ i = 1 \/ text[i - 1] \notin WordChars
        /\ RunEnd(i) = Len(text) \/ text[RunEnd(i) + 1] \notin WordChars}

\* The runs starting at the positions S, from left to right.
RunsInOrder(S) ==
    [k \in 1..Cardinality(S) |->
        LET i == CHOOSE s \in S : Cardinality({r \in S : r < s}) = k - 1
        IN  SubSeq(text, i, RunEnd(i))]

\* C11 (as stated): extract_solana_addresses returns, from left to right and
\* with duplicates, exactly the maximal runs of Base58 characters that are 32
\* to 44 long, a run counting as bounded by any character outside the
\* alphabet (0, O, I, l and underscore included) or by a string edge.
C11_EveryMaximalBase58Run ==
    pc = "extracted" => valid_addresses = RunsInOrder(SizedRuns)

\* C11 (amended): extract_solana_addresses returns, from left to right and
\* with duplicates, exactly the maximal runs of Base58 characters that are 32
\* to 44 long and have on each side a string edge or a character that is
\* not a word character (not a letter, a digit or an underscore).
C11_EveryWordBoundedBase58Run ==
    pc = "extracted" => valid_addresses = RunsInOrder(WordBoundedRuns)

\* The same address twice in one text was returned twice, in order.
C11_Witness ==
    /\ pc = "extracted"
    /\ text = Address1 \o <<" ">> \o Address1
    /\ valid_addresses = <<Address1, Address1>>

\* The get_users_tweets requests issued so far, in order.
TimelineRequests == SelectSeq(api_log, LAMBDA c : c.op = "get_users_tweets")

\* get_user_tweets has returned and every request it issued was answered.
ReturnedAnswered == pc = "fetched" /\ Len(next_tokens) = Len(TimelineRequests)

\* C12: whatever the responses, at most 10 get_users_tweets requests are
\* issued and the loop is left with the 10th; the first request carries no
\* token and each later one the next_token of the response before it; and
\* when every request was answered, get_user_tweets returns the fetched pages
\* concatenated in request order.
C12_AtMostTenChainedRequests ==
    /\ Len(TimelineRequests) <= 10
    /\ pc = "loop" => Len(TimelineRequests) < 10
    /\ \A k \in 1..Len(TimelineRequests) :
          TimelineRequests[k].token =
              IF k = 1 THEN None ELSE next_tokens[k - 1]
    /\ \A k \in 2..Len(TimelineRequests) : next_tokens[k - 1] # None
    /\ ReturnedAnswered => tweets = received

\* Ten responses each carried a next_token: ten requests were issued, the
\* last with the ninth cursor, and all ten pages were returned.
C12_Witness ==
    /\ ReturnedAnswered
    /\ Len(TimelineRequests) = 10
    /\ \A k \in 1..10 : next_tokens[k] # None
    /\ TimelineRequests[10].token = Some(CursorOf(9))
    /\ Len(tweets) >= 10
    /\ tweets = received

\* C13: query_flipside_data issues exactly one query per input address, in
\* the order of the address list, each after the one before it has returned
\* or failed; addresses with the same time window get a query each.
C13_OneQueryPerAddressInOrder ==
    /\ Len(queries) <= Len(addresses)
    /\ Len(outcomes) = Len(queries)
    /\ \A k \in 1..Len(queries) : queries[k].address = addresses[k]
    /\ pc = "query" => Len(queries) = qi - 1
    /\ QueryOver => Len(queries) = Len(addresses)

\* authenticate_twitter_api has reported a failure.
AuthFailed == \E k \in 1..Len(output) : output[k] = "Error during authentication"

\* C14: when authentication fails, the failure is reported (once by
\* authenticate_twitter_api, and on the page by the dashboard) and the run is
\* over: the social API was never called, no tweet was fetched or scanned
\* and no analytics query was issued, in the CLI and in the dashboard.
C14_AuthFailureEndsRun ==
    AuthFailed =>
        /\ pc = "done"
        /\ client = None
        /\ output = IF mode = "cli"
                    THEN <<"Error during authentication">>
                    ELSE <<"Error during authentication",
                           "Failed to authenticate with Twitter API">>
        /\ api_log = <<>> /\ request_count = 0
        /\ tweets = <<>> /\ sorted_tweets = <<>> /\ results = <<>>
        /\ queries = <<>> /\ outcomes = <<>> /\ flipside_results = <<>>
        /\ exception = None

\* Authentication failed in the dashboard.
C14_Witness ==
    /\ AuthFailed
    /\ mode = "dashboard"
    /\ username = "alice"
    /\ pc = "done"

\* get_user_tweets has reported that the username does not resolve.
UserNotFound == \E k \in 1..Len(output) : output[k] = "User not found"

\* C15: when the username does not resolve, get_user_tweets has called
\* get_user only, returns the empty list and raises nothing; the run then
\* ends with the "No tweets found" message, without a scan or a query.
C15_UnknownUserEndsWithEmptyResult ==
    UserNotFound =>
        /\ api_log = <<Call("get_user", None)>>
        /\ request_count = 0
        /\ tweets = <<>>
        /\ exception = None
        /\ sorted_tweets = <<>> /\ address_dict = <<>> /\ results = <<>>
        /\ queries = <<>> /\ outcomes = <<>> /\ flipside_results = <<>>
        /\ \/ pc = "fetched" /\ output = <<"Fetching tweets", "User not found">>
           \/ pc = "done" /\ output = <<"Fetching tweets", "User not found",
                                        "No tweets found">>

\* A run for an unknown user has ended.
C15_Witness ==
    /\ UserNotFound
    /\ pc = "done"
    /\ output[Len(output)] = "No tweets found"

\* C16: during the ascending scan a record, once inserted, is never replaced:
\* every step of the scan leaves each record of the mapping as it is (its
\* address, timestamp and source text), also when the tweet scanned has the
\* same timestamp as the recorded one, and a record that is added carries
\* the time and text of the tweet being scanned.
C16_RecordNeverReplaced ==
    [][pc = "fold" =>
          /\ Len(address_dict') >= Len(address_dict)
          /\ \A k \in 1..Len(address_dict) : address_dict'[k] = address_dict[k]
          /\ Len(address_dict') > Len(address_dict) =>
                /\ Len(address_dict') = Len(address_dict) + 1
                /\ address_dict'[Len(address_dict')].tweet_text = sorted_tweets[ti].text
                /\ address_dict'[Len(address_dict')].datetime = SortKey(sorted_tweets[ti])]_vars

\* Two tweets with equal timestamps and different texts mention the same
\* address; both were scanned and the record holds the text of the first.
C16_Witness ==
    /\ pc = "display"
    /\ \E k \in 1..Len(address_dict), i, j \in 1..Len(sorted_tweets) :
          /\ i < j
          /\ has_created_at(sorted_tweets[i])
          /\ sorted_tweets[i].created_at = sorted_tweets[j].created_at
          /\ sorted_tweets[i].text # sorted_tweets[j].text
          /\ address_dict[k].address \in AddressesIn(sorted_tweets[i])
          /\ address_dict[k].address \in AddressesIn(sorted_tweets[j])
          /\ \A h \in 1..(i - 1) :
                address_dict[k].address \notin AddressesIn(sorted_tweets[h])
          /\ address_dict[k].tweet_text = sorted_tweets[i].text
          /\ address_dict[k].timestamp = strftime_utc(sorted_tweets[i].created_at[1])

RECURSIVE Mentions(_)
\* The addresses of the first n scanned tweets, tweet by tweet and from left
\* to right within a tweet, duplicates included.
Mentions(n) ==
    IF n = 0 THEN <<>>
    ELSE Mentions(n - 1) \o extract_solana_addresses(sorted_tweets[n].text)

RECURSIVE FirstSeen(_, _)
\* The first n elements of seq without the repetitions of an earlier element.
FirstSeen(seq, n) ==
    IF n = 0 THEN <<>>
    ELSE IF \E j \in 1..(n - 1) : seq[j] = seq[n]
         THEN FirstSeen(seq, n - 1)
         ELSE Append(FirstSeen(seq, n - 1), seq[n])

\* The result list has just been built, or its lists have just been handed
\* to query_flipside_data.
ResultsJustBuilt == pc = "display" \/ (pc = "query" /\ qi = 1)

\* C17: the result list holds each distinct address once, in the order in
\* which the ascending scan first saw them (left to right within a tweet),
\* and the address and timestamp lists handed to query_flipside_data are the
\* addresses and timestamps of the result list, in that order and of equal
\* length.
C17_ResultsInFirstSeenOrder ==
    /\ ResultsJustBuilt =>
          /\ LET seen == Mentions(Len(sorted_tweets))
             IN  [k \in 1..Len(results) |-> results[k][1]]
                    = FirstSeen(seen, Len(seen))
          /\ \A j, k \in 1..Len(results) : j # k => results[j][1] # results[k][1]
    /\ (pc \in {"query", "queried", "tabs", "crashed"} \/ addresses # <<>>) =>
          /\ Len(addresses) = Len(results)
          /\ Len(timestamps) = Len(addresses)
          /\ \A k \in 1..Len(results) :
                /\ addresses[k] = results[k][1]
                /\ timestamps[k] = results[k][2]

\* The fetcher returned a tweet with one address and then an earlier tweet
\* that names another address first: the lists start with that other one.
C17_Witness ==
    /\ pc = "query"
    /\ Len(tweets) = 2
    /\ AddressesIn(tweets[1]) = {Address1}
    /\ extract_solana_addresses(tweets[2].text) = <<Address2, Address1, Address2>>
    /\ addresses = <<Address2, Address1>>
    /\ Len(timestamps) = 2
    /\ timestamps[1] = timestamps[2]

====
